---------------------------- MODULE Spec2Model ----------------------------
(***************************************************************************)
(* Model of the CocoIndex MCP server (templates/mcp_server.py): the two    *)
(* tools search_code and get_project_structure, the connection pool they   *)
(* share, and the pure helpers _format_location, _build_tree and           *)
(* _render_tree.                                                           *)
(*                                                                         *)
(* Strings are sequences of one-character tokens.  The box-drawing glyphs  *)
(* of _render_tree are written as the tokens "u2514" (up-and-right),       *)
(* "u251c" (vertical-and-right), "u2500" (horizontal), "u2502" (vertical). *)
(* Scores are integers in units of 10^-4, distances in units of 10^-5.     *)
(***************************************************************************)
EXTENDS Integers, Sequences, FiniteSets, TLC

VARIABLES
    paths,      \* _build_tree: the list of file paths given to it
    tree,       \* _build_tree: the nested dict it returned
    lines,      \* _render_tree: the list of lines it returned
    tpc,        \* position of the build/render computation
    location,   \* _format_location: its argument
    formatted,  \* _format_location: the string it returned
    fpc,        \* position of the _format_location computation
    store,      \* the rows of the code_embeddings table
    req,        \* the tool requests: arguments, position, connection, outcome
    checkedOut  \* pool: number of connections currently checked out

treeVars == <<paths, tree, lines, tpc>>
locVars == <<location, formatted, fpc>>
serverVars == <<store, req, checkedOut>>
vars == <<paths, tree, lines, tpc, location, formatted, fpc, store, req, checkedOut>>

NULL == "None"

\* Python's None / SQL NULL where a string is expected
None == <<"None">>
\* a distance column value: <<d>> for the number d, <<>> for SQL NULL
NullDistance == <<>>

(***************************************************************************)
(* Bounds                                                                  *)
(***************************************************************************)
MaxPathLen == 3
MaxPaths == 2
MaxLocLen == 3
MaxRows == 3
NumRequests == 2
\* capacity of the pool; psycopg_pool's default is 4, scaled down so that
\* NumRequests requests contend for connections
PoolSize == 1

(***************************************************************************)
(* Program constants                                                       *)
(***************************************************************************)
SnippetLen == 200
DefaultTopK == 10
DefaultMinScore == 3000

(***************************************************************************)
(* Characters and Python's string primitives                               *)
(***************************************************************************)
PathChars == {"a", "b", "/"}

\* Unicode code points: Python compares str values code point by code point.
CodePoint ==
    [c \in {"\t", " ", "(", ")", ",", "-", "/", "0", "5", "L", "[", "]", "a", "b", "l", "x"} |->
        CASE c = "\t" -> 9   [] c = " " -> 32  [] c = "(" -> 40  [] c = ")" -> 41
          [] c = "," -> 44   [] c = "-" -> 45  [] c = "/" -> 47  [] c = "0" -> 48
          [] c = "5" -> 53   [] c = "L" -> 76  [] c = "[" -> 91  [] c = "]" -> 93
          [] c = "a" -> 97   [] c = "b" -> 98  [] c = "l" -> 108 [] c = "x" -> 120]

RECURSIVE StrLess(_, _)
StrLess(s, t) ==
    IF t = <<>> THEN FALSE
    ELSE IF s = <<>> THEN TRUE
    ELSE IF Head(s) = Head(t) THEN StrLess(Tail(s), Tail(t))
    ELSE CodePoint[Head(s)] < CodePoint[Head(t)]

\* str.strip(chars): drop leading and trailing characters that are in chars.
RECURSIVE LStrip(_, _)
LStrip(s, chars) ==
    IF s # <<>> /\ Head(s) \in chars THEN LStrip(Tail(s), chars) ELSE s

RECURSIVE RStrip(_, _)
RStrip(s, chars) ==
    IF s # <<>> /\ s[Len(s)] \in chars THEN RStrip(SubSeq(s, 1, Len(s) - 1), chars) ELSE s

Strip(s, chars) == RStrip(LStrip(s, chars), chars)

\* str.split(sep) with a one-character separator: always at least one part.
RECURSIVE Split(_, _)
Split(s, sep) ==
    IF \E i \in 1..Len(s) : s[i] = sep
    THEN LET i == CHOOSE k \in 1..Len(s) : s[k] = sep /\ \A j \in 1..(k - 1) : s[j] # sep
         IN  <<SubSeq(s, 1, i - 1)>> \o Split(SubSeq(s, i + 1, Len(s)), sep)
    ELSE <<s>>

\* All strings over an alphabet of length at most n.
RECURSIVE StringsUpTo(_, _)
StringsUpTo(alphabet, n) ==
    IF n = 0 THEN {<<>>}
    ELSE LET shorter == StringsUpTo(alphabet, n - 1)
         IN  shorter \cup {Append(s, c) : s \in shorter, c \in alphabet}

RECURSIVE ListsUpTo(_, _)
ListsUpTo(S, n) ==
    IF n = 0 THEN {<<>>}
    ELSE LET shorter == ListsUpTo(S, n - 1)
         IN  shorter \cup {Append(l, x) : l \in shorter, x \in S}

(***************************************************************************)
(* Python dicts: functions from names to values                            *)
(***************************************************************************)
EmptyDict == [n \in {} |-> n]

DictSet(d, k, v) == [x \in (DOMAIN d) \cup {k} |-> IF x = k THEN v ELSE d[x]]

\* sorted(tree.keys()): ascending by code point

RECURSIVE sortedAsc(_)
sortedAsc(S) ==
    IF S = {} THEN <<>>
    ELSE LET m == CHOOSE x \in S : \A y \in S \ {x} : StrLess(x, y)
         IN  <<m>> \o sortedAsc(S \ {m})

sorted(S) == sortedAsc(S)

(***************************************************************************)
(* _build_tree                                                             *)
(***************************************************************************)
\* node.setdefault(part, {}) for one part: the child that is descended into
setdefaultFresh(node, part) == EmptyDict

setdefault(node, part) == IF part \in DOMAIN node THEN node[part] ELSE EmptyDict

\* the inner loop "for part in parts: node = node.setdefault(part, {})",
\* as the value of the dict node after the loop
RECURSIVE InsertParts(_, _)
InsertParts(node, parts) ==
    IF parts = <<>> THEN node
    ELSE DictSet(node, Head(parts),
                 InsertParts(setdefault(node, Head(parts)), Tail(parts)))

\* parts = path.strip("/").split("/")
PathParts(path) == Split(Strip(path, {"/"}), "/")

RECURSIVE BuildFrom(_, _)
BuildFrom(t, filenames) ==
    IF filenames = <<>> THEN t
    ELSE BuildFrom(InsertParts(t, PathParts(Head(filenames))), Tail(filenames))

_build_tree(filenames) == BuildFrom(EmptyDict, filenames)

(***************************************************************************)
(* _render_tree                                                            *)
(***************************************************************************)
ConnectorSwapped(is_last) ==
    IF is_last THEN <<"u251c", "u2500", "u2500", " ">> ELSE <<"u2514", "u2500", "u2500", " ">>

Connector(is_last) ==
    IF is_last THEN <<"u2514", "u2500", "u2500", " ">> ELSE <<"u251c", "u2500", "u2500", " ">>

Extension(is_last) ==
    IF is_last THEN <<" ", " ", " ", " ">> ELSE <<"u2502", " ", " ", " ">>

RECURSIVE _render_tree(_, _)
RECURSIVE RenderEntries(_, _, _, _)
\* the loop "for i, name in enumerate(entries)" from index i on
RenderEntries(t, prefix, entries, i) ==
    IF i > Len(entries) THEN <<>>
    ELSE LET name == entries[i]
             is_last == (i = Len(entries))
             line == prefix \o Connector(is_last) \o name
             sub == IF t[name] # EmptyDict
                    THEN _render_tree(t[name], prefix \o Extension(is_last))
                    ELSE <<>>
         IN  <<line>> \o sub \o RenderEntries(t, prefix, entries, i + 1)

_render_tree(t, prefix) == RenderEntries(t, prefix, sorted(DOMAIN t), 1)

(***************************************************************************)
(* Specification of the tree helpers: the path list is drawn from all      *)
(* lists of at most MaxPaths strings of at most MaxPathLen characters.     *)
(***************************************************************************)
TreeIdle == paths = <<>> /\ tree = NULL /\ lines = NULL /\ tpc = "off"
LocIdle == location = None /\ formatted = NULL /\ fpc = "off"
ServerIdle == store = {} /\ req = <<>> /\ checkedOut = 0

PathInputs == ListsUpTo(StringsUpTo(PathChars, MaxPathLen), MaxPaths)

InitTree ==
    /\ paths \in PathInputs
    /\ tree = NULL
    /\ lines = NULL
    /\ tpc = "start"
    /\ LocIdle
    /\ ServerIdle

BuildTree ==
    /\ tpc = "start"
    /\ tree' = _build_tree(paths)
    /\ tpc' = "built"
    /\ UNCHANGED <<paths, lines, locVars, serverVars>>

RenderTree ==
    /\ tpc = "built"
    /\ lines' = _render_tree(tree, <<>>)
    /\ tpc' = "rendered"
    /\ UNCHANGED <<paths, tree, locVars, serverVars>>

NextTree == BuildTree \/ RenderTree

SpecTree == InitTree /\ [][NextTree]_vars

(***************************************************************************)
(* Properties of the tree helpers                                          *)
(***************************************************************************)
Min(S) == CHOOSE x \in S : \A y \in S : x <= y
Max(S) == CHOOSE x \in S : \A y \in S : y <= x

\* The segments of a path, read off the positions of its slashes: the
\* '/'-free runs between the first and the last character that is not '/'.
Segs(path) ==
    LET nz == {i \in 1..Len(path) : path[i] # "/"}
    IN  IF nz = {} THEN << <<>> >>
        ELSE LET lo == Min(nz)
                 hi == Max(nz)
                 cuts == {i \in lo..hi : path[i] = "/"}
                 n == Cardinality(cuts) + 1
                 cutAt(k) == IF k = 0 THEN lo - 1
                             ELSE IF k = n THEN hi + 1
                             ELSE CHOOSE c \in cuts : Cardinality({d \in cuts : d < c}) = k - 1
             IN  [k \in 1..n |-> SubSeq(path, cutAt(k - 1) + 1, cutAt(k) - 1)]

\* every node the paths name: each path and each of its ancestors
ExpectedNodes(ps) ==
    UNION {{SubSeq(Segs(ps[i]), 1, k) : k \in 1..Len(Segs(ps[i]))} : i \in 1..Len(ps)}

\* Reading a rendered listing back: depth and name of a line, and the node
\* (sequence of names from the root) the line stands for.
IsGlyph(c) == c \in {"u2514", "u251c"}
LineDepth(line) ==
    IF \E k \in 1..Len(line) : IsGlyph(line[k])
    THEN (Min({k \in 1..Len(line) : IsGlyph(line[k])}) - 1) \div 4
    ELSE 0
LineName(line) == SubSeq(line, 4 * LineDepth(line) + 5, Len(line))

RECURSIVE LineNode(_, _)
LineNode(ls, i) ==
    LET d == LineDepth(ls[i])
        above == {j \in 1..(i - 1) : LineDepth(ls[j]) = d - 1}
    IN  IF d = 0 \/ above = {} THEN <<LineName(ls[i])>>
        ELSE Append(LineNode(ls, Max(above)), LineName(ls[i]))

\* C5: the rendering of the built tree has exactly one line for every input
\* path (the line of the node its segments name, below its ancestors' lines),
\* its lines are exactly the nodes the paths name, and no two lines stand for
\* the same name under the same parent.
C5_OneLinePerPath ==
    tpc = "rendered" =>
        /\ \A i \in 1..Len(paths) :
               Cardinality({k \in 1..Len(lines) : LineNode(lines, k) = Segs(paths[i])}) = 1
        /\ {LineNode(lines, k) : k \in 1..Len(lines)} = ExpectedNodes(paths)
        /\ \A j, k \in 1..Len(lines) : LineNode(lines, j) = LineNode(lines, k) => j = k

IsStrictPrefix(s, t) == Len(s) < Len(t) /\ SubSeq(t, 1, Len(s)) = s

\* two inputs, one a strict prefix of the other and written with a leading
\* slash, rendered as two lines
C5_Witness ==
    /\ tpc = "rendered"
    /\ Len(paths) = 2
    /\ paths[2] # <<>>
    /\ paths[2][1] = "/"
    /\ IsStrictPrefix(Segs(paths[2]), Segs(paths[1]))
    /\ Len(lines) = 2

\* The nodes of a nested dict and the dict found at a node.
RECURSIVE TreeNodes(_)
TreeNodes(t) ==
    UNION {{<<n>>} \cup {<<n>> \o q : q \in TreeNodes(t[n])} : n \in DOMAIN t}

RECURSIVE SubtreeAt(_, _)
SubtreeAt(t, p) == IF p = <<>> THEN t ELSE SubtreeAt(t[Head(p)], Tail(p))

Parent(p) == SubSeq(p, 1, Len(p) - 1)
LastName(p) == p[Len(p)]

\* p is the last of its siblings: every other sibling's name is smaller
IsLastSibling(t, p) ==
    \A s \in DOMAIN SubtreeAt(t, Parent(p)) : s # LastName(p) => StrLess(s, LastName(p))

\* q is listed before p: q is an ancestor of p, or at the first level where
\* they differ q's name is the smaller one
ListedBefore(q, p) ==
    \/ IsStrictPrefix(q, p)
    \/ \E k \in 1..Min({Len(q), Len(p)}) :
           /\ SubSeq(q, 1, k - 1) = SubSeq(p, 1, k - 1)
           /\ StrLess(q[k], p[k])

RECURSIVE ExpectedPrefix(_, _, _)
ExpectedPrefix(t, p, k) ==
    IF k >= Len(p) THEN <<>>
    ELSE (IF IsLastSibling(t, SubSeq(p, 1, k))
          THEN <<" ", " ", " ", " ">>
          ELSE <<"u2502", " ", " ", " ">>) \o ExpectedPrefix(t, p, k + 1)

ExpectedLine(t, p) ==
    ExpectedPrefix(t, p, 1)
        \o (IF IsLastSibling(t, p) THEN <<"u2514", "u2500", "u2500", " ">>
                                   ELSE <<"u251c", "u2500", "u2500", " ">>)
        \o LastName(p)

\* C6: the rendering lists the nodes of the tree in pre-order with siblings
\* ascending by name (so a node's subtree follows its line immediately); the
\* line of the last sibling of a level carries the terminal connector and the
\* others the branch connector; below a last sibling the prefix grows by four
\* spaces and below any other by the vertical bar and three spaces.
C6_RenderOrderAndConnectors ==
    tpc = "rendered" =>
        LET nodes == TreeNodes(tree)
        IN  /\ Len(lines) = Cardinality(nodes)
            /\ \A p \in nodes :
                   lines[1 + Cardinality({q \in nodes : ListedBefore(q, p)})]
                       = ExpectedLine(tree, p)

\* a directory that is not the last of its level, with a child below it
C6_Witness ==
    /\ tpc = "rendered"
    /\ Len(lines) = 3
    /\ lines[1] = <<"u251c", "u2500", "u2500", " ", "a">>
    /\ lines[2] = <<"u2502", " ", " ", " ", "u2514", "u2500", "u2500", " ", "b">>
    /\ lines[3] = <<"u2514", "u2500", "u2500", " ", "b">>

(***************************************************************************)
(* _format_location                                                        *)
(***************************************************************************)
\* the characters str.strip() without argument removes
PyWhitespace == {" ", "\t", "\n", "\r", "\f"}

startswith(s, c) == s # <<>> /\ Head(s) = c

\* the characters of loc.strip("()[] ")
LocStripChars == {"(", ")", "[", "]", " "}

\* str(location) of a string is the string itself
_format_location(loc_arg) ==
    IF loc_arg = None THEN <<>>
    ELSE LET loc == loc_arg
             parts == Split(Strip(loc, LocStripChars), ",")
         IN  IF startswith(loc, "L") \/ startswith(loc, "l") THEN loc
             ELSE IF Len(parts) = 2
                  THEN <<"o", "f", "f", "s", "e", "t", " ">>
                           \o Strip(parts[1], PyWhitespace) \o <<"-">>
                           \o Strip(parts[2], PyWhitespace)
                  ELSE loc

(***************************************************************************)
(* Specification of _format_location: the argument is None or any string   *)
(* of at most MaxLocLen characters over LocChars.                          *)
(***************************************************************************)
LocChars == {"L", "l", "(", "]", " ", "\t", ",", "0"}

LocInputs == StringsUpTo(LocChars, MaxLocLen) \cup {None}

InitLoc ==
    /\ location \in LocInputs
    /\ formatted = NULL
    /\ fpc = "start"
    /\ TreeIdle
    /\ ServerIdle

FormatLocation ==
    /\ fpc = "start"
    /\ formatted' = _format_location(location)
    /\ fpc' = "done"
    /\ UNCHANGED <<location, treeVars, serverVars>>

NextLoc == FormatLocation

SpecLoc == InitLoc /\ [][NextLoc]_vars

\* the result C7 describes: brackets and all whitespace stripped before the
\* split on ','
ClaimedFormat(loc) ==
    IF loc = None THEN <<>>
    ELSE IF startswith(loc, "L") \/ startswith(loc, "l") THEN loc
    ELSE LET tokens == Split(Strip(loc, {"(", ")", "[", "]"} \cup PyWhitespace), ",")
         IN  IF Len(tokens) = 2
             THEN <<"o", "f", "f", "s", "e", "t", " ">>
                      \o Strip(tokens[1], PyWhitespace) \o <<"-">>
                      \o Strip(tokens[2], PyWhitespace)
             ELSE loc

\* C7: _format_location gives '' for None, the string itself when it starts
\* with 'L' or 'l', 'offset {start}-{end}' when the string stripped of its
\* surrounding brackets and whitespace splits on ',' into exactly two tokens,
\* and the string itself in every other case.
C7_FormatLocation ==
    fpc = "done" => formatted = ClaimedFormat(location)

(***************************************************************************)
(* The code_embeddings table and the query of search_code                  *)
(***************************************************************************)
MinInt(a, b) == IF a < b THEN a ELSE b

\* a chunk text of n characters whose characters differ by position
Code(n) == [i \in 1..n |-> IF i % 3 = 0 THEN "x" ELSE IF i % 3 = 1 THEN "a" ELSE "b"]

\* (distance to the query vector, length of the chunk text) of a row; the
\* distance is NULL when the row has no embedding
RowOptions ==
    { <<<<5000>>, 2>>, <<<<5000>>, SnippetLen + 1>>, <<<<70004>>, SnippetLen>>,
      <<<<70006>>, SnippetLen + 1>>, <<<<150000>>, 2>>, <<NullDistance, 2>> }

\* the primary key (filename, location) of the i-th row
SlotFilename(i) ==
    CASE i = 1 -> <<"a", "/", "b">>
      [] i = 2 -> <<"b">>
      [] i = 3 -> <<"a", "/", "b">>
      [] OTHER -> <<"a", "/", "a">>

SlotLocation(i) ==
    CASE i = 1 -> <<"L", "0">>
      [] i = 2 -> <<"(", "0", ",", " ", "5", ")">>
      [] i = 3 -> None
      [] OTHER -> <<"0">>

Row(i, opt) ==
    [filename |-> SlotFilename(i), location |-> SlotLocation(i),
     code |-> Code(opt[2]), distance |-> opt[1]]

\* every table of at most n rows
RECURSIVE Stores(_)
Stores(n) ==
    IF n = 0 THEN {{}}
    ELSE LET fewer == Stores(n - 1)
         IN  fewer \cup {t \cup {Row(n, opt)} : t \in fewer, opt \in RowOptions}

\* ORDER BY distance: ascending, NULL after every number

DistanceLeq(d1, d2) ==
    \/ d2 = NullDistance
    \/ (d1 # NullDistance /\ d1[1] <= d2[1])

RECURSIVE Orderings(_)
Orderings(S) ==
    IF S = {} THEN {<<>>}
    ELSE UNION {{<<x>> \o q : q \in Orderings(S \ {x})} : x \in S}

\* the orders in which "SELECT ... ORDER BY distance" may deliver the rows:
\* rows of equal distance come in any order
ScanOrders(rows) ==
    {q \in Orderings(rows) :
        \A i \in 1..(Len(q) - 1) : DistanceLeq(q[i].distance, q[i + 1].distance)}

\* LIMIT top_k, for top_k >= 0
Limit(q, top_k) == SubSeq(q, 1, MinInt(top_k, Len(q)))

\* SELECT DISTINCT filename ... ORDER BY filename
DistinctFilenames(rows) == sortedAsc({row.filename : row \in rows})

(***************************************************************************)
(* search_code: the loop over the fetched rows                             *)
(***************************************************************************)
\* round(1.0 - distance, 4): the distance is in units of 10^-5, the score in
\* units of 10^-4.  A distance ending in the digit 5 (a decimal tie, which
\* the binary float need not resolve to the even side) is not among the
\* inputs.

Score(distance) ==
    LET x == 100000 - distance
        q == x \div 10
        r == x % 10
    IN  IF r < 5 THEN q
        ELSE IF r > 5 THEN q + 1
        ELSE IF q % 2 = 0 THEN q ELSE q + 1

\* "if score < min_score: continue"
SkippedAtThreshold(score, min_score) == score <= min_score

Skipped(score, min_score) == score < min_score

\* row[2][:200]
SnippetOffByOne(code) == SubSeq(code, 1, MinInt(SnippetLen - 1, Len(code)))

Snippet(code) == SubSeq(code, 1, MinInt(SnippetLen, Len(code)))

Entry(row, include_code) ==
    IF include_code
    THEN [filename |-> row.filename, location |-> _format_location(row.location),
          snippet |-> Snippet(row.code), score |-> Score(row.distance[1]),
          code |-> row.code]
    ELSE [filename |-> row.filename, location |-> _format_location(row.location),
          snippet |-> Snippet(row.code), score |-> Score(row.distance[1])]

\* 1.0 - row[3] raises TypeError when row[3] is None
RaisesTypeError(fetched) == \E i \in 1..Len(fetched) : fetched[i].distance = NullDistance

RECURSIVE ResultsReversed(_, _, _)
ResultsReversed(fetched, include_code, min_score) ==
    IF fetched = <<>> THEN <<>>
    ELSE LET row == Head(fetched)
             rest == ResultsReversed(Tail(fetched), include_code, min_score)
         IN  IF Skipped(Score(row.distance[1]), min_score) THEN rest
             ELSE Append(rest, Entry(row, include_code))

\* the list built by "for row in cur.fetchall()" when no row raises
RECURSIVE Results(_, _, _)
Results(fetched, include_code, min_score) ==
    IF fetched = <<>> THEN <<>>
    ELSE LET row == Head(fetched)
             rest == Results(Tail(fetched), include_code, min_score)
         IN  IF Skipped(Score(row.distance[1]), min_score) THEN rest
             ELSE <<Entry(row, include_code)>> \o rest

(***************************************************************************)
(* get_project_structure: the returned string                              *)
(***************************************************************************)
NoFilesIndexed ==
    <<"(", "n", "o", " ", "f", "i", "l", "e", "s", " ", "i", "n", "d", "e", "x", "e", "d", ")">>

\* "\n".join(lines)
RECURSIVE Join(_)
Join(ls) ==
    IF ls = <<>> THEN <<>>
    ELSE IF Len(ls) = 1 THEN ls[1]
    ELSE ls[1] \o <<"\n">> \o Join(Tail(ls))

StructureTextInverted(filenames) ==
    IF filenames # <<>> THEN NoFilesIndexed
    ELSE Join(_render_tree(_build_tree(filenames), <<>>))

StructureText(filenames) ==
    IF filenames = <<>> THEN NoFilesIndexed
    ELSE Join(_render_tree(_build_tree(filenames), <<>>))

(***************************************************************************)
(* The tool requests.  A request is one call of search_code or of          *)
(* get_project_structure; its steps are the statements of the handler at   *)
(* which other requests may run in between.                                *)
(***************************************************************************)
Requests == 1..NumRequests

SearchCall(top_k, include_code, min_score) ==
    [tool |-> "search_code", top_k |-> top_k, include_code |-> include_code,
     min_score |-> min_score]

StructureCall ==
    [tool |-> "get_project_structure", top_k |-> DefaultTopK, include_code |-> FALSE,
     min_score |-> DefaultMinScore]

NoCall ==
    [tool |-> "none", top_k |-> DefaultTopK, include_code |-> FALSE,
     min_score |-> DefaultMinScore]

NewRequest(call) ==
    [call |-> call,
     pc |-> "idle",
     conn |-> FALSE,        \* holds a pooled connection
     acquired |-> 0,        \* connections acquired so far
     queries |-> 0,         \* cur.execute calls so far
     fetched |-> <<>>,      \* cur.fetchall() of search_code
     filenames |-> <<>>,    \* the filenames list of get_project_structure
     results |-> <<>>,      \* value returned by search_code
     text |-> <<>>,         \* value returned by get_project_structure
     error |-> "",          \* exception raised, "" if none
     outcome |-> "none"]    \* "returned" or "raised" once the request has ended

\* the request enters its handler
Start(r) ==
    /\ req[r].pc = "idle"
    /\ req[r].call.tool # "none"
    /\ req' = [req EXCEPT ![r].pc =
                  IF req[r].call.tool = "search_code" THEN "embed" ELSE "acquire"]
    /\ UNCHANGED <<store, checkedOut, treeVars, locVars>>

\* query_vector = code_to_embedding.eval(query)
Embed(r) ==
    /\ req[r].pc = "embed"
    /\ req' = [req EXCEPT ![r].pc = "acquire"]
    /\ UNCHANGED <<store, checkedOut, treeVars, locVars>>

\* the embedder raises: the exception leaves search_code before the pool is used
EmbedFail(r) ==
    /\ req[r].pc = "embed"
    /\ req' = [req EXCEPT ![r].pc = "done", ![r].error = "EmbedError",
                          ![r].outcome = "raised"]
    /\ UNCHANGED <<store, checkedOut, treeVars, locVars>>

\* "with pool.connection() as conn": a free connection is checked out
Acquire(r) ==
    /\ req[r].pc = "acquire"
    /\ checkedOut < PoolSize
    /\ checkedOut' = checkedOut + 1
    /\ req' = [req EXCEPT ![r].pc = "execute", ![r].conn = TRUE,
                          ![r].acquired = @ + 1]
    /\ UNCHANGED <<store, treeVars, locVars>>

\* pool.connection() gives up waiting (pool exhausted or database unreachable)
AcquireTimeout(r) ==
    /\ req[r].pc = "acquire"
    /\ req' = [req EXCEPT ![r].pc = "done", ![r].error = "PoolTimeout",
                          ![r].outcome = "raised"]
    /\ UNCHANGED <<store, checkedOut, treeVars, locVars>>

\* cur.execute(...) and cur.fetchall() succeed.  PostgreSQL rejects a negative
\* LIMIT, so the query of search_code succeeds only for top_k >= 0.
Execute(r) ==
    /\ req[r].pc = "execute"
    /\ \/ /\ req[r].call.tool = "search_code"
          /\ req[r].call.top_k >= 0
          /\ \E q \in ScanOrders(store) :
                 req' = [req EXCEPT ![r].pc = "build", ![r].queries = @ + 1,
                                    ![r].fetched = Limit(q, req[r].call.top_k)]
       \/ /\ req[r].call.tool = "get_project_structure"
          /\ req' = [req EXCEPT ![r].pc = "release", ![r].queries = @ + 1,
                                ![r].filenames = DistinctFilenames(store)]
    /\ UNCHANGED <<store, checkedOut, treeVars, locVars>>

\* cur.execute(...) raises: "LIMIT must not be negative" for top_k < 0, or the
\* database fails the query
ExecuteFail(r) ==
    /\ req[r].pc = "execute"
    /\ req' = [req EXCEPT ![r].pc = "release", ![r].queries = @ + 1,
                          ![r].error =
                              IF req[r].call.tool = "search_code" /\ req[r].call.top_k < 0
                              THEN "InvalidRowCountInLimitClause"
                              ELSE "OperationalError"]
    /\ UNCHANGED <<store, checkedOut, treeVars, locVars>>

\* the loop over the fetched rows, up to "return results" or the TypeError of
\* "1.0 - None"
BuildResults(r) ==
    /\ req[r].pc = "build"
    /\ IF RaisesTypeError(req[r].fetched)
       THEN req' = [req EXCEPT ![r].pc = "release", ![r].error = "TypeError"]
       ELSE req' = [req EXCEPT ![r].pc = "release",
                               ![r].results = Results(req[r].fetched,
                                                      req[r].call.include_code,
                                                      req[r].call.min_score)]
    /\ UNCHANGED <<store, checkedOut, treeVars, locVars>>

ReleaseOnSuccessOnly(r) ==
    /\ req[r].pc = "release"
    /\ checkedOut' = IF req[r].error = "" THEN checkedOut - 1 ELSE checkedOut
    /\ req' = [req EXCEPT
                  ![r].conn = (req[r].error # ""),
                  ![r].pc = IF req[r].error = "" /\ req[r].call.tool = "get_project_structure"
                            THEN "render" ELSE "done",
                  ![r].outcome = IF req[r].error # "" THEN "raised"
                                 ELSE IF req[r].call.tool = "search_code" THEN "returned"
                                 ELSE "none"]
    /\ UNCHANGED <<store, treeVars, locVars>>

\* the exit of the "with pool.connection()" block, on return and on exception:
\* the connection goes back to the pool; search_code and a failed request end
\* here, get_project_structure goes on to build its tree
Release(r) ==
    /\ req[r].pc = "release"
    /\ checkedOut' = checkedOut - 1
    /\ req' = [req EXCEPT
                  ![r].conn = FALSE,
                  ![r].pc = IF req[r].error = "" /\ req[r].call.tool = "get_project_structure"
                            THEN "render" ELSE "done",
                  ![r].outcome = IF req[r].error # "" THEN "raised"
                                 ELSE IF req[r].call.tool = "search_code" THEN "returned"
                                 ELSE "none"]
    /\ UNCHANGED <<store, treeVars, locVars>>

\* get_project_structure after the with block: sentinel or rendered tree
Render(r) ==
    /\ req[r].pc = "render"
    /\ req' = [req EXCEPT ![r].pc = "done", ![r].outcome = "returned",
                          ![r].text = StructureText(req[r].filenames)]
    /\ UNCHANGED <<store, checkedOut, treeVars, locVars>>

Next ==
    \E r \in Requests :
        \/ Start(r)
        \/ Embed(r)
        \/ EmbedFail(r)
        \/ Acquire(r)
        \/ AcquireTimeout(r)
        \/ Execute(r)
        \/ ExecuteFail(r)
        \/ BuildResults(r)
        \/ Release(r)
        \/ Render(r)

(***************************************************************************)
(* Spec: one request at a time, over every table of at most MaxRows rows   *)
(* and every argument combination of SearchCalls.                          *)
(***************************************************************************)
TopKs == {-1, 0, 1, DefaultTopK}
MinScores == {DefaultMinScore, -5000}

SearchCalls ==
    {SearchCall(k, c, m) : k \in TopKs, c \in BOOLEAN, m \in MinScores}

Init ==
    /\ store \in Stores(MaxRows)
    /\ \E call \in SearchCalls \cup {StructureCall} :
           req = [r \in Requests |-> NewRequest(IF r = 1 THEN call ELSE NoCall)]
    /\ checkedOut = 0
    /\ TreeIdle
    /\ LocIdle

Spec == Init /\ [][Next]_vars

(***************************************************************************)
(* SpecServer: NumRequests concurrent requests sharing the pool, over the  *)
(* tables of at most one row.                                              *)
(***************************************************************************)
ServerCalls ==
    {SearchCall(DefaultTopK, FALSE, DefaultMinScore),
     SearchCall(-1, FALSE, DefaultMinScore),
     StructureCall}

InitServer ==
    /\ store \in {{}, {Row(1, <<<<5000>>, 2>>)}, {Row(1, <<NullDistance, 2>>)}}
    /\ req \in {[r \in Requests |-> NewRequest(c[r])] : c \in [Requests -> ServerCalls]}
    /\ checkedOut = 0
    /\ TreeIdle
    /\ LocIdle

SpecServer == InitServer /\ [][Next]_vars

(***************************************************************************)
(* Properties of search_code                                               *)
(***************************************************************************)
Abs(x) == IF x < 0 THEN -x ELSE x

\* the multiple of 10^-4 nearest to 1 - d, for a distance <<d>>
NearestScore(distance) ==
    LET x == 100000 - distance[1]
    IN  CHOOSE s \in (x \div 10)..(x \div 10 + 1) : 2 * Abs(10 * s - x) <= 10

\* entry e was made from row: same file, the row's location, the row's score
IsEntryOf(e, row) ==
    /\ e.filename = row.filename
    /\ e.location = _format_location(row.location)
    /\ e.score = NearestScore(row.distance)

Returned(r, tool) == req[r].call.tool = tool /\ req[r].outcome = "returned"

\* failures of the environment: embedder, pool or database unavailable
EnvFailures == {"EmbedError", "PoolTimeout", "OperationalError"}

\* C1: a returned search has no entry with a score below min_score, and a
\* fetched row has an entry exactly when round(1 - distance, 4) >= min_score.
C1_MinScoreFilter ==
    \A r \in DOMAIN req :
        Returned(r, "search_code") =>
            LET f == req[r].fetched
                res == req[r].results
                X == req[r].call.min_score
            IN  /\ \A i \in 1..Len(res) : res[i].score >= X
                /\ \A j \in 1..Len(f) :
                       (NearestScore(f[j].distance) >= X)
                           <=> (\E i \in 1..Len(res) : IsEntryOf(res[i], f[j]))
                /\ \A i \in 1..Len(res) : \E j \in 1..Len(f) : IsEntryOf(res[i], f[j])

\* a row whose rounded score equals min_score was kept and another row dropped
C1_Witness ==
    \E r \in DOMAIN req :
        /\ Returned(r, "search_code")
        /\ Len(req[r].results) < Len(req[r].fetched)
        /\ \E i \in 1..Len(req[r].results) :
               req[r].results[i].score = req[r].call.min_score

\* the k-th smallest element of a set of integers
Kth(S, k) == CHOOSE x \in S : Cardinality({y \in S : y < x}) = k - 1

\* C2: over a non-empty table, the returned entries are non-increasing in
\* score, the fetched rows are in ascending distance, and the i-th entry is
\* made from the i-th fetched row that passes the min_score filter.
C2_OrderPreserved ==
    \A r \in DOMAIN req :
        (Returned(r, "search_code") /\ store # {}) =>
            LET f == req[r].fetched
                res == req[r].results
                pass == {j \in 1..Len(f) :
                            NearestScore(f[j].distance) >= req[r].call.min_score}
            IN  /\ \A i \in 1..(Len(res) - 1) : res[i].score >= res[i + 1].score
                /\ \A j \in 1..(Len(f) - 1) : f[j].distance[1] <= f[j + 1].distance[1]
                /\ Len(res) = Cardinality(pass)
                /\ \A i \in 1..Len(res) : IsEntryOf(res[i], f[Kth(pass, i)])

\* two entries of different score returned, a third row filtered out
C2_Witness ==
    \E r \in DOMAIN req :
        /\ Returned(r, "search_code")
        /\ Len(req[r].fetched) = 3
        /\ Len(req[r].results) = 2
        /\ req[r].results[1].score > req[r].results[2].score

\* C3: a search_code call with top_k <= 0 that the environment does not fail
\* returns the empty list.
C3_NonPositiveTopKEmpty ==
    \A r \in DOMAIN req :
        (/\ req[r].call.tool = "search_code"
         /\ req[r].call.top_k <= 0
         /\ req[r].pc = "done"
         /\ req[r].error \notin EnvFailures)
            => (req[r].outcome = "returned" /\ req[r].results = <<>>)

\* C4: a search_code call with top_k >= 0 that the environment does not fail
\* returns; no entry is made from a row without embedding, and every fetched
\* row with an embedding that passes the filter has its entry.
C4_MissingEmbeddingExcluded ==
    \A r \in DOMAIN req :
        (/\ req[r].call.tool = "search_code"
         /\ req[r].call.top_k >= 0
         /\ req[r].pc = "done"
         /\ req[r].error \notin EnvFailures)
            => /\ req[r].outcome = "returned"
               /\ \A j \in 1..Len(req[r].fetched) :
                      LET row == req[r].fetched[j]
                          hasEntry == \E i \in 1..Len(req[r].results) :
                                          /\ req[r].results[i].filename = row.filename
                                          /\ req[r].results[i].location
                                                 = _format_location(row.location)
                      IN  IF row.distance = NullDistance THEN ~hasEntry
                          ELSE (NearestScore(row.distance) >= req[r].call.min_score)
                                   => hasEntry

\* C9: in every returned entry the snippet is the first 200 characters of the
\* row's code, which is the whole code when it has at most 200 characters; the
\* entry has a code field, holding the row's code, exactly when include_code.
C9_SnippetAndCode ==
    \A r \in DOMAIN req :
        Returned(r, "search_code") =>
            \A i \in 1..Len(req[r].results) :
                LET e == req[r].results[i]
                    row == CHOOSE row \in {req[r].fetched[j] : j \in 1..Len(req[r].fetched)} :
                               /\ row.filename = e.filename
                               /\ _format_location(row.location) = e.location
                    n == Len(row.code)
                IN  /\ n > 200 => (Len(e.snippet) = 200
                                   /\ \A k \in 1..200 : e.snippet[k] = row.code[k])
                    /\ n <= 200 => e.snippet = row.code
                    /\ ("code" \in DOMAIN e) <=> req[r].call.include_code
                    /\ req[r].call.include_code => e.code = row.code

\* with include_code, one entry of a 201-character row and one of a short row
C9_Witness ==
    \E r \in DOMAIN req :
        /\ Returned(r, "search_code")
        /\ req[r].call.include_code
        /\ \E i, j \in 1..Len(req[r].results) :
               /\ Len(req[r].results[i].code) = 201
               /\ Len(req[r].results[i].snippet) = 200
               /\ Len(req[r].results[j].snippet) = 2

InFlight(r) == req[r].pc \notin {"idle", "done"}

\* C10: a request acquires at most one connection and issues one query on it;
\* it holds the connection only inside the with block and has released it
\* when it ends, whatever the exit; a failed embedding ends the request
\* without a connection; the connections checked out are those held by
\* requests in flight, and none is checked out once every request has ended.
C10_ConnectionScoped ==
    /\ \A r \in DOMAIN req :
           /\ req[r].acquired <= 1
           /\ req[r].queries <= req[r].acquired
           /\ req[r].conn => req[r].pc \in {"execute", "build", "release"}
           /\ req[r].pc = "done" =>
                  /\ ~req[r].conn
                  /\ req[r].queries = req[r].acquired
                  /\ req[r].outcome \in {"returned", "raised"}
           /\ req[r].error = "EmbedError" =>
                  /\ req[r].acquired = 0
                  /\ req[r].outcome = "raised"
    /\ checkedOut = Cardinality({r \in DOMAIN req : req[r].conn})
    /\ checkedOut <= Cardinality({r \in DOMAIN req : InFlight(r)})
    /\ (\A r \in DOMAIN req : ~InFlight(r)) => checkedOut = 0

\* every request has ended, one after a failed query and one after a failure
\* while building its results, and the pool is full again
C10_Witness ==
    /\ DOMAIN req # {}
    /\ \A r \in DOMAIN req : req[r].pc = "done"
    /\ \E r \in DOMAIN req : req[r].error = "InvalidRowCountInLimitClause"
    /\ \E r \in DOMAIN req : req[r].error = "TypeError"
    /\ checkedOut = 0

=============================================================================
